---- MODULE Spec2Model ----
(***************************************************************************)
(* AlphaVantageService (proxy.core/proxies/alphavantage): the retrieval    *)
(* orchestration of one provider adapter.  retrieveStockData checks the    *)
(* request against the provider's capability descriptor, branches to the   *)
(* daily or the intraday fetch, and the then/catch chain of the fetch      *)
(* schedules the bar save, issues the update of the job ledger row and     *)
(* reads the row back.  Every await of the TypeScript is a step boundary:  *)
(* an action is the code that runs between two awaits.                     *)
(***************************************************************************)
EXTENDS Integers, Sequences, FiniteSets, TLC

(***************************************************************************)
(* Bounds of the model.                                                    *)
(***************************************************************************)
MaxJobs == 2
MaxBars == 1
MaxWindow == 10
MaxDen == 20

(***************************************************************************)
(* Program constants.                                                      *)
(***************************************************************************)
HttpStatus_OK == 200
HttpStatus_BAD_REQUEST == 400
HttpStatus_INTERNAL_SERVER_ERROR == 500

ONE_DAY == "ONE_DAY"
FIVE_MIN == "FIVE_MIN"
ONE_WEEK == "ONE_WEEK"

PROXY_NAME == "AlphaVantage"

Calls == {"c1", "c2"}
JobIds == 1..MaxJobs
NullJob == 0
Symbols == {"AAPL"}
Exchanges == {"NASDAQ", "NYSE"}
Intervals == {ONE_DAY, FIVE_MIN, ONE_WEEK}

(***************************************************************************)
(* Text.  A string the code inspects or builds is a sequence of one-       *)
(* character strings, so that startsWith and concatenation are computed.   *)
(***************************************************************************)
Str_Error == <<"E", "r", "r", "o", "r">>
Str_TypeError == <<"T", "y", "p", "e">> \o Str_Error
Str_ErrorColon == Str_Error \o <<":">>
Str_DataSize == <<"D", "a", "t", "a", "S", "i", "z", "e", "=">>
Str_bad == <<"b", "a", "d">>
Str_timeout == <<"t", "i", "m", "e", "o", "u", "t">>

\* String.prototype.startsWith
StartsWith(s, p) == Len(s) >= Len(p) /\ SubSeq(s, 1, Len(p)) = p

\* Number to decimal text, as the template literal `${data.length}` does.
RECURSIVE Decimal(_)
Decimal(n) ==
    LET digit == <<"0", "1", "2", "3", "4", "5", "6", "7", "8", "9">>[(n % 10) + 1]
    IN  IF n < 10 THEN <<digit>> ELSE Decimal(n \div 10) \o <<digit>>

\* `DataSize=${data.length}`
DataSizeMessage(n) == Str_DataSize \o Decimal(n)

(***************************************************************************)
(* Values a fetch can reject with: Error objects (name, message) and plain *)
(* strings.                                                                *)
(***************************************************************************)
ErrorValues ==
    { [isError |-> TRUE, name |-> Str_Error, text |-> Str_bad],
      [isError |-> TRUE, name |-> Str_Error, text |-> <<>>],
      [isError |-> TRUE, name |-> Str_TypeError, text |-> Str_bad],
      [isError |-> FALSE, name |-> <<>>, text |-> Str_timeout] }

\* The fault a success handler raises when it dereferences what it was given.
HandlerFault == [isError |-> TRUE, name |-> Str_TypeError, text |-> Str_bad]

\* error.toString(): Error.prototype.toString for an Error, the string itself
\* for a string.
ErrorToString(e) ==
    IF ~e.isError THEN e.text
    ELSE IF e.text = <<>> THEN e.name
    ELSE IF e.name = <<>> THEN e.text
    ELSE e.name \o <<":", " ">> \o e.text

(***************************************************************************)
(* Capability descriptors (IDataProxyConfig): supported exchanges,         *)
(* supported intraday intervals, daily-bar support.                        *)
(***************************************************************************)
Descriptors ==
    { [openExchanges |-> {"NASDAQ"}, intraDayIntervals |-> {}, dailySupported |-> TRUE],
      [openExchanges |-> {"NASDAQ"}, intraDayIntervals |-> {FIVE_MIN}, dailySupported |-> TRUE],
      [openExchanges |-> {"NASDAQ", "NYSE"}, intraDayIntervals |-> {FIVE_MIN}, dailySupported |-> FALSE],
      [openExchanges |-> {"NYSE"}, intraDayIntervals |-> {FIVE_MIN, ONE_DAY}, dailySupported |-> FALSE] }

Requests == [symbol : Symbols, exchange : Exchanges, interval : Intervals]
NoRequest == [symbol |-> "", exchange |-> "", interval |-> ""]

(***************************************************************************)
(* Ledger rows, urls, outcomes.                                            *)
(***************************************************************************)
NoUrl == <<>>
\* getDailyDataUrl / getIntraDayDataUrl: deterministic in symbol, exchange, interval
DailyDataUrl(r) == <<"TIME_SERIES_DAILY", r.symbol, r.exchange, r.interval>>
IntraDayDataUrl(r) == <<"TIME_SERIES_INTRADAY", r.symbol, r.exchange, r.interval>>

\* A row as the caller created it, before any finalization.
CreatedRow == [status_code |-> 0, message |-> <<>>, url |-> NoUrl, proxy |-> ""]
\* What findProxyJobLogById yields when no row has the id.
NoRow == [status_code |-> -1, message |-> <<>>, url |-> NoUrl, proxy |-> ""]

NoWrite == [job |-> NullJob, proxy |-> "", url |-> NoUrl, status_code |-> 0, message |-> <<>>]

NoOutcome == [kind |-> "none", status |-> 0, text |-> <<>>]
Returned == [kind |-> "returned", status |-> 0, text |-> <<>>]
\* throw new Error(...)
PlainError(what) == [kind |-> "Error", status |-> 0, text |-> <<what>>]
\* throw new HttpException(text, status)
HttpException(text, status) == [kind |-> "HttpException", status |-> status, text |-> text]

(***************************************************************************)
(* ProxyStatus and ProxyAPIStats.  A hit rate is the fraction <<n, d>> of  *)
(* succeeded attempts n among d attempts; <<0, 0>> is undefined.           *)
(***************************************************************************)
Sunny == "sunny"
Cloudy == "cloudy"
Raining == "raining"
ThunderStorm == "thunderstorm"
Eclipse == "eclipse"
Unknown == "unknown"
ProxyStatus == {Sunny, Cloudy, Raining, ThunderStorm, Eclipse, Unknown}

Undefined == <<0, 0>>
\* the hit rates the classifier is tried on: every fraction of a small
\* denominator, every whole percent, and the thousandths around 1%
HitRates ==
    {h \in (0..MaxDen) \X (1..MaxDen) : h[1] <= h[2]}
        \cup {<<n, 100>> : n \in 0..100}
        \cup {<<n, 1000>> : n \in 0..MaxDen}

EmptyWindow == [attempts |-> 0, succeeded |-> 0]

PingIdle == [pc |-> "idle", health |-> ""]
\* what getHealth resolves with, and what it rejects with
HealthValues == {"UP", "DOWN"}
HealthErrors == {"timeout", "unauthorized"}

VARIABLES
    config,      \* ALPHA_PROXY_CONFIG, fixed at construction
    ledger,      \* the job ledger: JobIds -> row
    pending,     \* updateProxyJobLog calls issued and not yet applied: set of [call, write]
    pc,          \* position of each retrieveStockData call
    req,         \* its request
    job,         \* its jobId (NullJob for null)
    path,        \* "none", "daily" or "intraday"
    fetches,     \* external fetches it issued: [daily, intraday]
    write,       \* the updateProxyJobLog call it issued, NoWrite if none
    updates,     \* how many updateProxyJobLog calls it issued
    handlers,    \* which handlers of the chain ran: subset of {"then", "catch"}
    save,        \* its bar save: "none", "pending", "saved", "failed"
    bars,        \* number of bars handed to the Bar Store, -1 if none
    outcome,     \* what the caller observes
    view,        \* the row the returned result view is built from
    window,      \* recent ledger rows of this provider: [attempts, succeeded]
    statsRead,   \* the rows the last computation of the stats read
    api_stats,   \* ProxyAPIStats: [status, api_hit_rate]
    ping         \* pingProxyHealth: [pc, health]

vars == <<config, ledger, pending, pc, req, job, path, fetches, write, updates,
          handlers, save, bars, outcome, view, window, statsRead, api_stats, ping>>

\* the state of the health side of the adapter
healthVars == <<window, statsRead, api_stats, ping>>

\* the state of the retrieval side of the adapter
retrievalVars == <<config, ledger, pending, pc, req, job, path, fetches, write, updates,
                   handlers, save, bars, outcome, view>>

callVars == <<pc, req, job, path, fetches, write, updates, handlers, save, bars, outcome, view>>

Init ==
    /\ config \in Descriptors
    /\ ledger = [j \in JobIds |-> CreatedRow]
    /\ pending = {}
    /\ pc = [c \in Calls |-> "idle"]
    /\ req = [c \in Calls |-> NoRequest]
    /\ job = [c \in Calls |-> NullJob]
    /\ path = [c \in Calls |-> "none"]
    /\ fetches = [c \in Calls |-> [daily |-> 0, intraday |-> 0]]
    /\ write = [c \in Calls |-> NoWrite]
    /\ updates = [c \in Calls |-> 0]
    /\ handlers = [c \in Calls |-> {}]
    /\ save = [c \in Calls |-> "none"]
    /\ bars = [c \in Calls |-> -1]
    /\ outcome = [c \in Calls |-> NoOutcome]
    /\ view = [c \in Calls |-> NoRow]
    /\ window = EmptyWindow
    /\ statsRead = EmptyWindow
    /\ api_stats = [status |-> Unknown, api_hit_rate |-> Undefined]
    /\ ping = PingIdle

(***************************************************************************)
(* retrieveStockData: the branch on the descriptor.                        *)
(***************************************************************************)
\* resolve_path without the check of the exchange
resolve_path_AnyExchange(d, r) ==
    IF r.interval = ONE_DAY THEN "daily"
    ELSE IF r.interval \in d.intraDayIntervals THEN "intraday"
    ELSE "InvalidInterval"

\* resolve_path with the two retrieval calls exchanged
resolve_path_Swapped(d, r) ==
    IF r.exchange \in d.openExchanges
    THEN IF r.interval = ONE_DAY THEN "intraday"
         ELSE IF r.interval \in d.intraDayIntervals THEN "daily"
         ELSE "InvalidInterval"
    ELSE "InvalidExchange"

\* the path retrieveStockData takes for request r under descriptor d
resolve_path(d, r) ==
    IF r.exchange \in d.openExchanges
    THEN IF r.interval = ONE_DAY THEN "daily"
         ELSE IF r.interval \in d.intraDayIntervals THEN "intraday"
         ELSE "InvalidInterval"
    ELSE "InvalidExchange"

\* the url built before the fetch is issued
BuildUrl(p, r) == IF p = "daily" THEN DailyDataUrl(r) ELSE IntraDayDataUrl(r)

\* retrieveStockData up to its first await: a rejection throws, an accepted
\* request enters retrieveDailyData / retrieveIntraDayData, which builds the
\* url and issues the fetch.
RetrieveStockData(c, r, j) ==
    /\ pc[c] = "idle"
    /\ req' = [req EXCEPT ![c] = r]
    /\ job' = [job EXCEPT ![c] = j]
    /\ LET p == resolve_path(config, r) IN
       IF p \in {"daily", "intraday"}
       THEN /\ path' = [path EXCEPT ![c] = p]
            /\ fetches' = [fetches EXCEPT ![c][p] = @ + 1]
            /\ pc' = [pc EXCEPT ![c] = "fetching"]
            /\ outcome' = outcome
       ELSE /\ pc' = [pc EXCEPT ![c] = "done"]
            /\ outcome' = [outcome EXCEPT ![c] = PlainError(p)]
            /\ UNCHANGED <<path, fetches>>
    /\ UNCHANGED <<config, ledger, pending, write, updates, handlers, save, bars, view>>

\* UpdateCall with a fixed id in place of the jobId of the call
UpdateCall_WrongJob(c, status, message) ==
    [job |-> 1, proxy |-> PROXY_NAME, url |-> BuildUrl(path[c], req[c]),
     status_code |-> status, message |-> message]

\* UpdateCall that records the url on success only
UpdateCall_NoUrlOnFailure(c, status, message) ==
    [job |-> job[c], proxy |-> PROXY_NAME,
     url |-> IF status = HttpStatus_OK THEN BuildUrl(path[c], req[c]) ELSE NoUrl,
     status_code |-> status, message |-> message]

\* the updateProxyJobLog call of call c: jobId, PROXY_NAME, url, status, message
UpdateCall(c, status, message) ==
    [job |-> job[c], proxy |-> PROXY_NAME, url |-> BuildUrl(path[c], req[c]),
     status_code |-> status, message |-> message]

\* ClassifyError with the prefix test without its colon
ClassifyError_NoColon(e) ==
    IF StartsWith(ErrorToString(e), Str_Error)
    THEN HttpStatus_BAD_REQUEST
    ELSE HttpStatus_INTERNAL_SERVER_ERROR

\* the status the catch handler classifies an error as
ClassifyError(e) ==
    IF StartsWith(ErrorToString(e), Str_ErrorColon)
    THEN HttpStatus_BAD_REQUEST
    ELSE HttpStatus_INTERNAL_SERVER_ERROR

\* the catch handler of the chain: issues the failure update (not awaited)
\* and throws the classified HttpException
CatchHandler(c, e) ==
    /\ write' = [write EXCEPT ![c] = UpdateCall(c, ClassifyError(e), ErrorToString(e))]
    /\ updates' = [updates EXCEPT ![c] = @ + 1]
    /\ pending' = pending \cup {[call |-> c, w |-> UpdateCall(c, ClassifyError(e), ErrorToString(e))]}
    /\ outcome' = [outcome EXCEPT ![c] = HttpException(ErrorToString(e), ClassifyError(e))]
    /\ pc' = [pc EXCEPT ![c] = "done"]

\* the fetch resolves with n bars: the then handler schedules the save
\* (not awaited), issues the success update (not awaited) and returns
FetchSucceed(c, n) ==
    /\ pc[c] = "fetching"
    /\ handlers' = [handlers EXCEPT ![c] = {"then"}]
    /\ save' = [save EXCEPT ![c] = "pending"]
    /\ bars' = [bars EXCEPT ![c] = n]
    /\ write' = [write EXCEPT ![c] = UpdateCall(c, HttpStatus_OK, DataSizeMessage(n))]
    /\ updates' = [updates EXCEPT ![c] = @ + 1]
    /\ pending' = pending \cup {[call |-> c, w |-> UpdateCall(c, HttpStatus_OK, DataSizeMessage(n))]}
    /\ pc' = [pc EXCEPT ![c] = "readback"]
    /\ UNCHANGED <<config, ledger, req, job, path, fetches, outcome, view>>

\* the fetch resolves but the then handler throws before it issues the
\* update (the save call or data.length faults): the rejection of the then
\* promise reaches the catch handler of the same chain
FetchSucceedFault(c, saved) ==
    /\ pc[c] = "fetching"
    /\ handlers' = [handlers EXCEPT ![c] = {"then", "catch"}]
    /\ save' = [save EXCEPT ![c] = IF saved THEN "pending" ELSE "none"]
    /\ bars' = [bars EXCEPT ![c] = IF saved THEN 0 ELSE -1]
    /\ CatchHandler(c, HandlerFault)
    /\ UNCHANGED <<config, ledger, req, job, path, fetches, view>>

\* the fetch rejects with e: the then handler is skipped, the catch handler runs
FetchFail(c, e) ==
    /\ pc[c] = "fetching"
    /\ handlers' = [handlers EXCEPT ![c] = {"catch"}]
    /\ CatchHandler(c, e)
    /\ UNCHANGED <<config, ledger, req, job, path, fetches, save, bars, view>>

\* LedgerApply whose second update of a row overwrites the status only
LedgerApply_Torn(p) ==
    /\ p \in pending
    /\ pending' = pending \ {p}
    /\ ledger' = IF p.w.job \in JobIds
                 THEN [ledger EXCEPT ![p.w.job] =
                          IF @ = CreatedRow
                          THEN [status_code |-> p.w.status_code, message |-> p.w.message,
                                url |-> p.w.url, proxy |-> p.w.proxy]
                          ELSE [@ EXCEPT !.status_code = p.w.status_code]]
                 ELSE ledger
    /\ UNCHANGED <<config, callVars>>

\* ProxyJobLogService.updateProxyJobLog takes effect: the row of the id, if
\* there is one, gets proxy, url, status and message in one step
LedgerApply(p) ==
    /\ p \in pending
    /\ pending' = pending \ {p}
    /\ ledger' = IF p.w.job \in JobIds
                 THEN [ledger EXCEPT ![p.w.job] =
                          [status_code |-> p.w.status_code, message |-> p.w.message,
                           url |-> p.w.url, proxy |-> p.w.proxy]]
                 ELSE ledger
    /\ UNCHANGED <<config, callVars>>

\* findProxyJobLogById
FindRow(j) == IF j \in JobIds THEN ledger[j] ELSE NoRow

\* ReadBack that first awaits the bar save
ReadBack_AwaitsSave(c) ==
    /\ pc[c] = "readback"
    /\ save[c] # "pending"
    /\ view' = [view EXCEPT ![c] = FindRow(job[c])]
    /\ outcome' = [outcome EXCEPT ![c] = Returned]
    /\ pc' = [pc EXCEPT ![c] = "done"]
    /\ UNCHANGED <<config, ledger, pending, req, job, path, fetches, write, updates,
                   handlers, save, bars>>

\* after the chain: await findProxyJobLogById(jobId), return the view of it
ReadBack(c) ==
    /\ pc[c] = "readback"
    /\ view' = [view EXCEPT ![c] = FindRow(job[c])]
    /\ outcome' = [outcome EXCEPT ![c] = Returned]
    /\ pc' = [pc EXCEPT ![c] = "done"]
    /\ UNCHANGED <<config, ledger, pending, req, job, path, fetches, write, updates,
                   handlers, save, bars>>

\* saveStockDataToDb resolves: logged
SaveSucceed(c) ==
    /\ save[c] = "pending"
    /\ save' = [save EXCEPT ![c] = "saved"]
    /\ UNCHANGED <<config, ledger, pending, pc, req, job, path, fetches, write, updates,
                   handlers, bars, outcome, view>>

\* SaveFail without the catch of the save promise: the rejection reaches
\* the catch handler of the fetch chain
SaveFail_Propagated(c) ==
    /\ save[c] = "pending"
    /\ save' = [save EXCEPT ![c] = "failed"]
    /\ write' = [write EXCEPT ![c] = UpdateCall(c, ClassifyError(HandlerFault), ErrorToString(HandlerFault))]
    /\ updates' = [updates EXCEPT ![c] = @ + 1]
    /\ pending' = pending \cup {[call |-> c, w |-> UpdateCall(c, ClassifyError(HandlerFault), ErrorToString(HandlerFault))]}
    /\ outcome' = [outcome EXCEPT ![c] = HttpException(ErrorToString(HandlerFault), ClassifyError(HandlerFault))]
    /\ pc' = [pc EXCEPT ![c] = "done"]
    /\ UNCHANGED <<config, ledger, req, job, path, fetches, handlers, bars, view>>

\* saveStockDataToDb rejects: its own catch logs the error and drops it
SaveFail(c) ==
    /\ save[c] = "pending"
    /\ save' = [save EXCEPT ![c] = "failed"]
    /\ UNCHANGED <<config, ledger, pending, pc, req, job, path, fetches, write, updates,
                   handlers, bars, outcome, view>>

Next ==
    \/ \E c \in Calls, r \in Requests, j \in JobIds \cup {NullJob} :
          RetrieveStockData(c, r, j) /\ UNCHANGED healthVars
    \/ \E c \in Calls, n \in 0..MaxBars : FetchSucceed(c, n) /\ UNCHANGED healthVars
    \/ \E c \in Calls, saved \in BOOLEAN : FetchSucceedFault(c, saved) /\ UNCHANGED healthVars
    \/ \E c \in Calls, e \in ErrorValues : FetchFail(c, e) /\ UNCHANGED healthVars
    \/ \E p \in pending : LedgerApply(p) /\ UNCHANGED healthVars
    \/ \E c \in Calls : ReadBack(c) /\ UNCHANGED healthVars
    \/ \E c \in Calls : SaveSucceed(c) /\ UNCHANGED healthVars
    \/ \E c \in Calls : SaveFail(c) /\ UNCHANGED healthVars

Spec == Init /\ [][Next]_vars

(***************************************************************************)
(* The health classifier (specification, section 4.1).                     *)
(***************************************************************************)
\* a <= b and a < b on fractions
RateLeq(a, b) == a[1] * b[2] <= b[1] * a[2]
RateLess(a, b) == a[1] * b[2] < b[1] * a[2]

\* classify with the 0.75 boundary given to the lower band
classify_OpenAtThreeQuarters(h) ==
    IF h[2] = 0 THEN Unknown
    ELSE IF h[1] = h[2] THEN Sunny
    ELSE IF RateLess(<<3, 4>>, h) THEN Cloudy
    ELSE IF RateLeq(<<1, 4>>, h) THEN Raining
    ELSE IF RateLeq(<<1, 100>>, h) THEN ThunderStorm
    ELSE Eclipse

\* classify(hit_rate): the status of a hit rate
classify(h) ==
    IF h[2] = 0 THEN Unknown
    ELSE IF h[1] = h[2] THEN Sunny
    ELSE IF RateLeq(<<3, 4>>, h) THEN Cloudy
    ELSE IF RateLeq(<<1, 4>>, h) THEN Raining
    ELSE IF RateLeq(<<1, 100>>, h) THEN ThunderStorm
    ELSE Eclipse

\* the classifier applied to a hit rate
Classify(h) ==
    /\ api_stats' = [status |-> classify(h), api_hit_rate |-> h]
    /\ UNCHANGED <<retrievalVars, window, statsRead, ping>>

ClassifyNext == \E h \in HitRates \cup {Undefined} : Classify(h)

ClassifySpec == Init /\ [][ClassifyNext]_vars

(***************************************************************************)
(* The stats of the provider (get_stats) and the health ping.              *)
(***************************************************************************)
\* a retrieval attempt of this provider enters the trailing window
RecordAttempt(ok) ==
    /\ window.attempts < MaxWindow
    /\ window' = [attempts |-> window.attempts + 1,
                  succeeded |-> window.succeeded + (IF ok THEN 1 ELSE 0)]
    /\ UNCHANGED <<retrievalVars, statsRead, api_stats, ping>>

\* the oldest attempt leaves the trailing window
ExpireAttempt(ok) ==
    /\ IF ok THEN window.succeeded > 0 ELSE window.attempts > window.succeeded
    /\ window' = [attempts |-> window.attempts - 1,
                  succeeded |-> window.succeeded - (IF ok THEN 1 ELSE 0)]
    /\ UNCHANGED <<retrievalVars, statsRead, api_stats, ping>>

\* hit_rate with an empty window counted as a rate of 0
hit_rate_ZeroWhenEmpty(w) == IF w.attempts = 0 THEN <<0, 1>> ELSE <<w.succeeded, w.attempts>>

\* the hit rate of a window: succeeded / attempts, undefined without attempts
hit_rate(w) == IF w.attempts = 0 THEN Undefined ELSE <<w.succeeded, w.attempts>>

\* fetchAPIStats / getProxyStats: read the window, compute the hit rate, classify it
FetchAPIStats ==
    /\ statsRead' = window
    /\ api_stats' = [status |-> classify(hit_rate(window)), api_hit_rate |-> hit_rate(window)]
    /\ UNCHANGED <<retrievalVars, window, ping>>

\* pingProxyHealth up to its await of getHealth
PingProxyHealth ==
    /\ ping.pc # "awaiting"
    /\ ping' = [pc |-> "awaiting", health |-> ""]
    /\ UNCHANGED <<retrievalVars, window, statsRead, api_stats>>

\* getHealth resolves: pingProxyHealth returns what it resolved with
GetHealthResolve(h) ==
    /\ ping.pc = "awaiting"
    /\ ping' = [pc |-> "returned", health |-> h]
    /\ UNCHANGED <<retrievalVars, window, statsRead, api_stats>>

\* getHealth rejects: `return await` rethrows, pingProxyHealth has no catch
GetHealthReject(e) ==
    /\ ping.pc = "awaiting"
    /\ ping' = [pc |-> "thrown", health |-> e]
    /\ UNCHANGED <<retrievalVars, window, statsRead, api_stats>>

HealthNext ==
    \/ \E ok \in BOOLEAN : RecordAttempt(ok)
    \/ \E ok \in BOOLEAN : ExpireAttempt(ok)
    \/ FetchAPIStats
    \/ PingProxyHealth
    \/ \E h \in HealthValues : GetHealthResolve(h)
    \/ \E e \in HealthErrors : GetHealthReject(e)

HealthSpec == Init /\ [][HealthNext]_vars

(***************************************************************************)
(* Vocabulary of the claims.                                               *)
(***************************************************************************)
Started(c) == pc[c] # "idle"
Finished(c) == pc[c] = "done"
FailureCodes == {HttpStatus_BAD_REQUEST, HttpStatus_INTERNAL_SERVER_ERROR}
TerminalCodes == {HttpStatus_OK} \cup FailureCodes
Surfaced(c) == outcome[c].kind \in {"Error", "HttpException"}
FetchCount(c) == fetches[c].daily + fetches[c].intraday
\* the fetch of c resolved and its success handler ran to its end
FetchSucceeded(c) == handlers[c] = {"then"}

\* is_admissible of the specification, section 4.2 and section 8
is_admissible(d, r) ==
    /\ r.exchange \in d.openExchanges
    /\ \/ r.interval = ONE_DAY /\ d.dailySupported
       \/ r.interval \in d.intraDayIntervals

\* the request names an unsupported exchange, or an interval that is neither
\* ONE_DAY nor a supported intraday interval
Unsupported(d, r) ==
    \/ r.exchange \notin d.openExchanges
    \/ r.interval # ONE_DAY /\ r.interval \notin d.intraDayIntervals

(***************************************************************************)
(* C1: every call of retrieveStockData that has ended, whatever its        *)
(* outcome (success, classified fetch failure, rejection of the request),  *)
(* has issued exactly one update of the ledger row of its job.             *)
(***************************************************************************)
C1_ExactlyOneTerminalUpdate ==
    \A c \in Calls : Finished(c) => updates[c] = 1

(***************************************************************************)
(* C2: after a retrieve whose fetch succeeded, the returned view is the    *)
(* ledger row of the job, and it shows the Succeeded state: success code   *)
(* and the message with the bar count, never the Created content.          *)
(***************************************************************************)
C2_ViewReflectsSucceeded ==
    \A c \in Calls :
        (Finished(c) /\ FetchSucceeded(c) /\ job[c] \in JobIds) =>
            /\ view[c] = ledger[job[c]]
            /\ view[c].status_code = HttpStatus_OK
            /\ view[c].message = DataSizeMessage(bars[c])

(***************************************************************************)
(* C3: whenever retrieve has surfaced an error to its caller, the update   *)
(* of the ledger row with a failure code has been issued and has already   *)
(* taken effect.                                                           *)
(***************************************************************************)
C3_RecordedBeforeSurfaced ==
    \A c \in Calls :
        Surfaced(c) =>
            /\ updates[c] = 1
            /\ write[c].status_code \in FailureCodes
            /\ [call |-> c, w |-> write[c]] \notin pending

(***************************************************************************)
(* C4: retrieve proceeds to an external fetch if and only if the request   *)
(* is admissible: exchange supported, and interval ONE_DAY with daily      *)
(* bars supported or interval a supported intraday interval.               *)
(***************************************************************************)
C4_FetchIffAdmissible ==
    \A c \in Calls :
        Started(c) => (FetchCount(c) > 0 <=> is_admissible(config, req[c]))

(***************************************************************************)
(* C5: a retrieve whose request names an unsupported exchange or an        *)
(* unsupported interval fails with a ClientError (status 400) and the      *)
(* ledger update it issues carries the client-failure code.                *)
(***************************************************************************)
C5_UnsupportedIsClientError ==
    \A c \in Calls :
        (Started(c) /\ Unsupported(config, req[c])) =>
            /\ outcome[c].kind = "HttpException"
            /\ outcome[c].status = HttpStatus_BAD_REQUEST
            /\ write[c].status_code = HttpStatus_BAD_REQUEST

C7_SaveFailureSwallowed ==
    \A c \in Calls :
        (FetchSucceeded(c) /\ save[c] = "failed") =>
            /\ ~Surfaced(c)
            /\ Finished(c) => outcome[c] = Returned
            /\ updates[c] = 1
            /\ write[c].status_code = HttpStatus_OK
            /\ \A p \in pending : p.call = c => p.w.status_code = HttpStatus_OK

C7_Witness ==
    \E c \in Calls :
        /\ FetchSucceeded(c)
        /\ save[c] = "failed"
        /\ Finished(c)
        /\ outcome[c] = Returned
        /\ job[c] \in JobIds
        /\ ledger[job[c]].status_code = HttpStatus_OK
        /\ view[c].status_code = HttpStatus_OK

(***************************************************************************)
(* C8: once the ledger row of a job holds a terminal state it never        *)
(* changes again, and a call issues the external fetch at most once.       *)
(***************************************************************************)
C8_TerminalIsFinal ==
    [][ /\ \A j \in JobIds :
              ledger[j].status_code \in TerminalCodes => ledger'[j] = ledger[j]
        /\ \A c \in Calls : FetchCount(c)' <= 1 ]_vars

(***************************************************************************)
(* C9: an admissible ONE_DAY request goes to the daily fetch and never to  *)
(* the intraday fetch, an admissible request of any other interval goes    *)
(* to the intraday fetch and never to the daily one: exactly one fetch.    *)
(***************************************************************************)
C9_RoutedByInterval ==
    \A c \in Calls :
        (Started(c) /\ is_admissible(config, req[c])) =>
            IF req[c].interval = ONE_DAY
            THEN fetches[c] = [daily |-> 1, intraday |-> 0] /\ path[c] = "daily"
            ELSE fetches[c] = [daily |-> 0, intraday |-> 1] /\ path[c] = "intraday"

C9_Witness ==
    /\ \E c \in Calls :
          Started(c) /\ is_admissible(config, req[c]) /\ req[c].interval = ONE_DAY
             /\ fetches[c].daily = 1
    /\ \E c \in Calls :
          Started(c) /\ is_admissible(config, req[c]) /\ req[c].interval # ONE_DAY
             /\ fetches[c].intraday = 1

(***************************************************************************)
(* C10: when the fetch fails, the error raised to the caller is classified *)
(* 400 or 500, the status code of the ledger update equals the status of   *)
(* the raised error, and the status is 400 exactly when the text of the    *)
(* error starts with "Error:".                                             *)
(***************************************************************************)
C10_ClassifiedAndRecorded ==
    \A c \in Calls :
        "catch" \in handlers[c] =>
            /\ outcome[c].kind = "HttpException"
            /\ outcome[c].status \in FailureCodes
            /\ write[c].status_code = outcome[c].status
            /\ write[c].message = outcome[c].text
            /\ outcome[c].status = HttpStatus_BAD_REQUEST
                  <=> StartsWith(outcome[c].text, <<"E", "r", "r", "o", "r", ":">>)

C10_Witness ==
    /\ \E c \in Calls :
          handlers[c] = {"catch"} /\ outcome[c].status = HttpStatus_BAD_REQUEST
             /\ job[c] \in JobIds /\ ledger[job[c]].status_code = HttpStatus_BAD_REQUEST
    /\ \E c \in Calls :
          handlers[c] = {"catch"} /\ outcome[c].status = HttpStatus_INTERNAL_SERVER_ERROR
             /\ outcome[c].text = Str_Error

(***************************************************************************)
(* Vocabulary of the health claims.                                        *)
(***************************************************************************)
Defined(h) == h[2] # 0
\* the band of section 4.1 a status stands for
InBand(st, h) ==
    CASE st = Unknown -> ~Defined(h)
      [] st = Sunny -> Defined(h) /\ h[1] = h[2]
      [] st = Cloudy -> Defined(h) /\ 75 * h[2] <= 100 * h[1] /\ h[1] < h[2]
      [] st = Raining -> Defined(h) /\ 25 * h[2] <= 100 * h[1] /\ 100 * h[1] < 75 * h[2]
      [] st = ThunderStorm -> Defined(h) /\ h[2] <= 100 * h[1] /\ 100 * h[1] < 25 * h[2]
      [] st = Eclipse -> Defined(h) /\ 100 * h[1] < h[2]
\* the fraction h has the value n / d
IsRate(h, n, d) == Defined(h) /\ h[1] * d = n * h[2]

(***************************************************************************)
(* C11: classify is total over [0,1] and undefined, and the five bands     *)
(* partition [0,1] without gap or overlap, lower bounds closed: the status *)
(* of a hit rate is the one band of section 4.1 that holds it, and 0,      *)
(* 0.01, 0.25, 0.75, 1.0 are Eclipse, ThunderStorm, Raining, Cloudy, Sunny.*)
(***************************************************************************)
C11_ClassifyPartitions ==
    LET h == api_stats.api_hit_rate
        st == api_stats.status
    IN  /\ st \in ProxyStatus
        /\ InBand(st, h)
        /\ Cardinality({x \in ProxyStatus : InBand(x, h)}) = 1
        /\ ~Defined(h) => st = Unknown
        /\ IsRate(h, 0, 1) => st = Eclipse
        /\ IsRate(h, 1, 100) => st = ThunderStorm
        /\ IsRate(h, 1, 4) => st = Raining
        /\ IsRate(h, 3, 4) => st = Cloudy
        /\ IsRate(h, 1, 1) => st = Sunny

C11_Witness ==
    /\ api_stats.api_hit_rate = <<3, 4>>
    /\ api_stats.status = Cloudy

C13_PingNeverRaises ==
    ping.pc # "thrown"

(***************************************************************************)
(* C14: the success path never waits for the bar save: once the chain has  *)
(* resolved, the read-back and return can proceed whatever the state of    *)
(* the save, and a call whose fetch succeeded returns its result with the  *)
(* Succeeded update whether the save is pending, done or failed.           *)
(***************************************************************************)
C14_ReturnNeverWaitsForSave ==
    \A c \in Calls :
        /\ pc[c] = "readback" =>
              /\ save[c] \in {"pending", "saved", "failed"}
              /\ ENABLED (ReadBack(c) /\ UNCHANGED healthVars)
        /\ (Finished(c) /\ FetchSucceeded(c)) =>
              /\ outcome[c] = Returned
              /\ write[c].status_code = HttpStatus_OK

C14_Witness ==
    \E c \in Calls :
        /\ Finished(c)
        /\ FetchSucceeded(c)
        /\ outcome[c] = Returned
        /\ save[c] = "pending"
        /\ job[c] \in JobIds
        /\ ledger[job[c]].status_code = HttpStatus_OK
        /\ view[c].status_code = HttpStatus_OK

(***************************************************************************)
(* C15: with two retrieve calls on the same job_id the finalizations of    *)
(* the row are applied one after the other: the row always holds the       *)
(* complete outcome (status, message, url) of exactly one finalization,    *)
(* never a mixture of two.                                                 *)
(***************************************************************************)
RowOf(w) ==
    [status_code |-> w.status_code, message |-> w.message, url |-> w.url, proxy |-> w.proxy]
Applied(c) == updates[c] = 1 /\ [call |-> c, w |-> write[c]] \notin pending

C15_RowIsOneFinalization ==
    \A j \in JobIds :
        \/ ledger[j] = CreatedRow
        \/ \E c \in Calls : job[c] = j /\ Applied(c) /\ ledger[j] = RowOf(write[c])

C15_Witness ==
    \E c1, c2 \in Calls :
        /\ c1 # c2
        /\ job[c1] = job[c2]
        /\ job[c1] \in JobIds
        /\ Applied(c1)
        /\ Applied(c2)
        /\ write[c1].status_code # write[c2].status_code
        /\ write[c1].url # write[c2].url
        /\ ledger[job[c1]] = RowOf(write[c2])

(***************************************************************************)
(* C16: a retrieve for job j changes only the row of j: a step that        *)
(* changes a row applies the update of a call whose job_id is that row's,  *)
(* every other row is left as it was, and the view a call returns is the   *)
(* row of its own job_id.                                                  *)
(***************************************************************************)
C16_OnlyOwnRow ==
    [][ /\ \A k \in JobIds :
              ledger'[k] # ledger[k] =>
                 /\ \E c \in Calls :
                       /\ job[c] = k
                       /\ [call |-> c, w |-> write[c]] \in pending
                       /\ [call |-> c, w |-> write[c]] \notin pending'
                       /\ ledger'[k] = RowOf(write[c])
                 /\ \A i \in JobIds \ {k} : ledger'[i] = ledger[i]
        /\ \A c \in Calls :
              view'[c] # view[c] => job[c] \in JobIds /\ view'[c] = ledger[job[c]] ]_vars

C16_Witness ==
    \E c1, c2 \in Calls :
        /\ job[c1] \in JobIds
        /\ job[c2] \in JobIds
        /\ job[c1] # job[c2]
        /\ Applied(c1)
        /\ ledger[job[c1]] = RowOf(write[c1])
        /\ view[c1] = ledger[job[c1]]
        /\ updates[c2] = 1
        /\ ledger[job[c2]] = CreatedRow

(***************************************************************************)
(* C17: the url is built from symbol, exchange and interval before the     *)
(* fetch is issued, and that url is what every terminal update carries,    *)
(* on success, client failure and provider failure alike; two retrieves    *)
(* of the same symbol, exchange and interval record the same url.          *)
(***************************************************************************)
ExpectedUrl(r) ==
    <<IF r.interval = ONE_DAY THEN "TIME_SERIES_DAILY" ELSE "TIME_SERIES_INTRADAY",
      r.symbol, r.exchange, r.interval>>

C17_UrlOnEveryOutcome ==
    /\ \A c \in Calls :
          updates[c] >= 1 =>
             /\ FetchCount(c) = 1
             /\ write[c].status_code \in TerminalCodes
             /\ write[c].url = ExpectedUrl(req[c])
    /\ \A c1, c2 \in Calls :
          (updates[c1] >= 1 /\ updates[c2] >= 1 /\ req[c1] = req[c2]) =>
             write[c1].url = write[c2].url
    /\ \A j \in JobIds :
          ledger[j] # CreatedRow =>
             \E c \in Calls : job[c] = j /\ ledger[j].url = ExpectedUrl(req[c])

C17_Witness ==
    \E c1, c2 \in Calls :
        /\ req[c1] = req[c2]
        /\ job[c1] \in JobIds
        /\ job[c2] \in JobIds
        /\ job[c1] # job[c2]
        /\ write[c1].status_code = HttpStatus_OK
        /\ write[c2].status_code = HttpStatus_BAD_REQUEST
        /\ Applied(c1)
        /\ Applied(c2)
        /\ ledger[job[c1]].url = ledger[job[c2]].url
        /\ ledger[job[c1]].url # NoUrl

(***************************************************************************)
(* C18: a retrieve whose job_id is absent or names no ledger row ends in   *)
(* the fatal LedgerInconsistency error and never returns a result view     *)
(* built from a missing row.                                               *)
(***************************************************************************)
C18_MissingRowIsFatal ==
    \A c \in Calls :
        (Finished(c) /\ FetchCount(c) > 0 /\ job[c] \notin JobIds) =>
            /\ outcome[c].kind = "LedgerInconsistency"
            /\ outcome[c] # Returned

(***************************************************************************)
(* C19: a job whose fetch returned successfully is never finalized with a  *)
(* failure code and surfaces no error: a fault raised inside the success   *)
(* handler does not reach the fetch-failure handler.                       *)
(***************************************************************************)
C19_SuccessNeverFailed ==
    \A c \in Calls :
        "then" \in handlers[c] =>
            /\ "catch" \notin handlers[c]
            /\ ~Surfaced(c)
            /\ write[c].status_code \notin FailureCodes

====
